---- MODULE Spec2Model ----
(***************************************************************************)
(* Model of the aggiorna-dj updater (main.py) and its packaging companion  *)
(* (zip.py).                                                               *)
(*                                                                         *)
(* Strings that the code parses (display choices, the 'scarica' sentinel)  *)
(* are sequences of one-character strings.  Paths are sequences of path    *)
(* components, so that os.path.join and os.path.basename are computed.     *)
(* A directory tree is a function from the paths that exist below its root *)
(* to nodes; a node is a file with its data or a directory.                *)
(*                                                                         *)
(* Environment: the network (requests.get) and the validity of a           *)
(* downloaded archive are choices of the environment.  Filesystem calls    *)
(* behave as documented on the modelled tree: they fail exactly when the   *)
(* tree makes them fail (a directory renamed onto a file, a file extracted *)
(* onto a directory, a missing parent directory).                          *)
(***************************************************************************)
EXTENDS Integers, Sequences, FiniteSets, TLC

\* ------------------------------------------------------------------ bounds

\* Longest preserve list ('da-tenere') fed to download_and_extract.
MaxPreserve == 2

\* Most components in a manifest (freaky.json).
MaxManifest == 2

\* Longest selection string handed to process_selection directly.
MaxSelLen == 3

\* Most projects in a packaging configuration (zip_config.json).
MaxProjects == 2

\* ------------------------------------------------------------- filesystem

FileNode(d) == [kind |-> "file", data |-> d]
DirNode == [kind |-> "dir", data |-> "-"]

\* The empty tree (a directory with nothing in it).
EmptyTree == [p \in {} |-> DirNode]

\* os.path.basename of a relative path.
Basename(p) == p[Len(p)]

\* os.path.join(a, b) for relative paths.
Join(a, b) == a \o b

IsPrefix(p, q) == Len(p) <= Len(q) /\ SubSeq(q, 1, Len(p)) = p

\* os.path.exists / os.path.isdir, relative to the root of tree fs.
Exists(fs, p) == p \in DOMAIN fs
IsDir(fs, p) == p \in DOMAIN fs /\ fs[p].kind = "dir"

\* The tree without p and everything below it (os.remove, shutil.rmtree).
RemoveTree(fs, p) == [q \in {x \in DOMAIN fs : ~IsPrefix(p, x)} |-> fs[q]]

\* The tree dst with the subtree of src rooted at sp placed at dp.
Graft(dst, dp, src, sp) ==
    LET moved == {q \in DOMAIN src : IsPrefix(sp, q)}
        Dest(q) == dp \o SubSeq(q, Len(sp) + 1, Len(q))
        newDom == DOMAIN dst \cup {Dest(q) : q \in moved}
    IN  [x \in newDom |->
            IF \E q \in moved : Dest(q) = x
            THEN src[CHOOSE q \in moved : Dest(q) = x]
            ELSE dst[x]]

\* shutil.move(src/sp, dst/dp) between two trees.  A destination that is a
\* directory receives the source inside it (and the call raises when that
\* name is taken); otherwise os.rename replaces a file by a file, and a
\* directory renamed onto a file fails, as does the copytree fallback.
ShutilMove(src, sp, dst, dp) ==
    LET real == IF IsDir(dst, dp) THEN Join(dp, <<Basename(sp)>>) ELSE dp
        fails == \/ (IsDir(dst, dp) /\ Exists(dst, real))
                 \/ (IsDir(src, sp) /\ Exists(dst, real))
    IN  IF fails
        THEN [ok |-> FALSE, src |-> src, dst |-> dst]
        ELSE [ok |-> TRUE,
              src |-> RemoveTree(src, sp),
              dst |-> Graft(RemoveTree(dst, real), real, src, sp)]

\* os.listdir of the root of a tree.
ListDir(fs) == {p[1] : p \in DOMAIN fs}

\* --------------------------------------------------- install engine inputs

\* File and directory names of the modelled component directory.
FilePaths == {<<"b.txt">>, <<"data">>, <<"cfg", "data">>}
PreserveItems == {<<"b.txt">>, <<"data">>, <<"cfg">>, <<"cfg", "data">>}

\* What a file of the installed component holds before the update.
OldData(p) == CASE p = <<"b.txt">> -> "old_b"
                [] p = <<"data">> -> "old_data"
                [] OTHER -> "old_cfg_data"

\* What the archive holds for a member.
NewData(p) == CASE p = <<"b.txt">> -> "new_b"
                [] p = <<"data">> -> "new_data"
                [] OTHER -> "new_cfg_data"

\* Component directories before the update: 'b.txt' a file or absent, 'data'
\* a file, an empty directory or absent, 'cfg' a directory (with or without
\* its file 'data') or absent.
InitTrees ==
    LET B == {EmptyTree, [p \in {<<"b.txt">>} |-> FileNode(OldData(p))]}
        D == {EmptyTree,
              [p \in {<<"data">>} |-> FileNode(OldData(p))],
              [p \in {<<"data">>} |-> DirNode]}
        C == {EmptyTree,
              [p \in {<<"cfg">>} |-> DirNode],
              [p \in {<<"cfg">>, <<"cfg", "data">>} |->
                  IF p = <<"cfg">> THEN DirNode ELSE FileNode(OldData(p))]}
        Union3(b, d, c) ==
            [p \in DOMAIN b \cup DOMAIN d \cup DOMAIN c |->
                IF p \in DOMAIN b THEN b[p]
                ELSE IF p \in DOMAIN d THEN d[p] ELSE c[p]]
    IN  {Union3(b, d, c) : b \in B, d \in D, c \in C}

\* Archives: every set of file members; the members are stored in this order.
ArchiveOrder == <<<<"b.txt">>, <<"cfg", "data">>, <<"data">>>>
Archives == SUBSET FilePaths

SeqsUpTo(S, n) == UNION {[1..k -> S] : k \in 0..n}
PreserveLists == SeqsUpTo(PreserveItems, MaxPreserve)

\* ZipFile.extract of one file member p into fs: the missing parent
\* directories are made (which fails on a parent that is a file) and the file
\* is opened for writing (which fails on a directory).
ExtractMember(fs, p) ==
    LET parents == {SubSeq(p, 1, k) : k \in 1..(Len(p) - 1)}
        fails == \/ \E q \in parents : Exists(fs, q) /\ ~IsDir(fs, q)
                 \/ IsDir(fs, p)
    IN  IF fails
        THEN [ok |-> FALSE, fs |-> fs]
        ELSE [ok |-> TRUE,
              fs |-> [x \in DOMAIN fs \cup parents \cup {p} |->
                        IF x = p THEN FileNode(NewData(p))
                        ELSE IF x \in parents THEN DirNode ELSE fs[x]]]

\* ZipFile.extractall: the members in archive order, stopping at the first
\* that raises.
RECURSIVE ExtractFrom(_, _, _)
ExtractFrom(fs, members, k) ==
    IF k > Len(ArchiveOrder) THEN [ok |-> TRUE, fs |-> fs]
    ELSE IF ArchiveOrder[k] \notin members THEN ExtractFrom(fs, members, k + 1)
    ELSE LET r == ExtractMember(fs, ArchiveOrder[k])
         IN  IF r.ok THEN ExtractFrom(r.fs, members, k + 1) ELSE r

ExtractAll(fs, members) == ExtractFrom(fs, members, 1)

\* ---------------------------------------------------------------- strings

Digits == <<"0", "1", "2", "3", "4", "5", "6", "7", "8", "9">>
DigitSet == {Digits[k] : k \in 1..10}
DigitValue(c) == (CHOOSE k \in 1..10 : Digits[k] = c) - 1

\* str(n) for a natural number n.
RECURSIVE Str(_)
Str(n) == IF n < 10 THEN <<Digits[n + 1]>>
          ELSE Str(n \div 10) \o <<Digits[(n % 10) + 1]>>

\* s.split(')')[0]: the part before the first ')', the whole string when
\* there is none.
RECURSIVE SplitFirst(_)
SplitFirst(s) == IF s = <<>> \/ Head(s) = ")" THEN <<>>
                 ELSE <<Head(s)>> \o SplitFirst(Tail(s))

\* str.strip() over the blank.
RECURSIVE LStrip(_)
LStrip(s) == IF s # <<>> /\ Head(s) = " " THEN LStrip(Tail(s)) ELSE s

RECURSIVE RStrip(_)
RStrip(s) == IF s # <<>> /\ s[Len(s)] = " "
             THEN RStrip(SubSeq(s, 1, Len(s) - 1)) ELSE s

RECURSIVE DigitsValue(_)
DigitsValue(s) == IF s = <<>> THEN 0
                  ELSE 10 * DigitsValue(SubSeq(s, 1, Len(s) - 1))
                       + DigitValue(s[Len(s)])

\* int(s): blanks around the literal are skipped, one sign may lead, and at
\* least one digit must follow; anything else is a ValueError.  (The strings
\* of the model hold no underscore and no white space but the blank.)
PyInt(s) ==
    LET t == RStrip(LStrip(s))
        signed == t # <<>> /\ Head(t) \in {"-", "+"}
        body == IF signed THEN Tail(t) ELSE t
        good == body # <<>> /\ \A k \in 1..Len(body) : body[k] \in DigitSet
    IN  IF ~good THEN [ok |-> FALSE, val |-> 0]
        ELSE [ok |-> TRUE,
              val |-> IF signed /\ Head(t) = "-"
                      THEN 0 - DigitsValue(body) ELSE DigitsValue(body)]

\* The value of the "Scarica nuovo" choice.
Scarica == <<"s", "c", "a", "r", "i", "c", "a">>

\* ------------------------------------------------------ manifest and choices

NameA == <<"a">>
NameB == <<"2", ")">>
NameC == <<"c">>
GitDir == <<".", "g", "i", "t">>
DownDir == <<"d", "o", "w", "n">>

\* The components a manifest may list, each with its entry: 'zip' and,
\* optionally, 'da-tenere'.
ComponentPool ==
    {[name |-> NameA, zip |-> "a.zip", hasTenere |-> FALSE, tenere |-> <<>>],
     [name |-> NameB, zip |-> "b.zip", hasTenere |-> TRUE,
      tenere |-> <<<<"cfg", "data">>>>],
     [name |-> NameC, zip |-> "c.zip", hasTenere |-> TRUE, tenere |-> <<>>]}

\* A manifest is a JSON object: its keys are distinct and keep their order.
Manifests ==
    {m \in SeqsUpTo(ComponentPool, MaxManifest) :
        \A i, j \in 1..Len(m) : i # j => m[i].name # m[j].name}

\* Directories the working directory may hold.
CwdDirSets == SUBSET {NameA, NameB, NameC, DownDir}

\* get_local_components: the directories of the working directory without
\* '.git' and 'down'.
GetLocalComponents(dirs) == dirs \ {GitDir, DownDir}

\* Mutant of Display: the 0-based position is printed.
DisplayZeroBased(i, name) == Str(i) \o <<")", " ">> \o name

\* f"{i+1}) {name}" for the entry at 0-based position i.
Display(i, name) == Str(i + 1) \o <<")", " ">> \o name

\* Mutant of Included: the mode is not looked at.
IncludedAnyMode(mode, is_local) == is_local

\* The condition under which create_choices appends an entry.
Included(mode, is_local) ==
    \/ (mode = "update" /\ is_local)
    \/ (mode = "download" /\ ~is_local)

\* create_choices: the 0-based positions it appends, in manifest order.
ChoicePositions(component_list, local_list, mode) ==
    LET all == [k \in 1..Len(component_list) |-> k - 1]
        Keep(i) == Included(mode, component_list[i + 1].name \in local_list)
    IN  SelectSeq(all, Keep)

\* create_choices: the display strings it returns.
CreateChoices(component_list, local_list, mode) ==
    LET pos == ChoicePositions(component_list, local_list, mode)
    IN  [j \in 1..Len(pos) |-> Display(pos[j], component_list[pos[j] + 1].name)]

NoResult == [status |-> "none", cosa |-> "", dove |-> <<>>, da_tenere |-> <<>>]

\* list(available_data.keys())[scelta_index]: a Python list index, which
\* counts from the end when negative; 0 stands for IndexError.
ListIndex(n, scelta_index) ==
    IF scelta_index >= 0 /\ scelta_index < n THEN scelta_index + 1
    ELSE IF scelta_index < 0 /\ scelta_index >= 0 - n THEN n + scelta_index + 1
    ELSE 0

\* The 0-based index process_selection computes from the parsed prefix.
SceltaIndex(val) == val - 1

\* process_selection: the (cosa, dove, da_tenere) it returns, or the
\* exception it raises.
ProcessSelection(selected_choice_string, available_data) ==
    LET parsed == PyInt(SplitFirst(selected_choice_string))
        at == ListIndex(Len(available_data), SceltaIndex(parsed.val))
    IN  IF ~parsed.ok THEN [NoResult EXCEPT !.status = "ValueError"]
        ELSE IF at = 0 THEN [NoResult EXCEPT !.status = "IndexError"]
        ELSE LET entry == available_data[at]
             IN  [status |-> "ok",
                  cosa |-> entry.zip,
                  dove |-> entry.name,
                  da_tenere |-> IF entry.hasTenere THEN entry.tenere ELSE <<>>]

\* Lines 237-244: what the top level does with the resolver's outcome.
TopLevel(res) ==
    IF res.status = "ok" THEN "install"
    ELSE IF res.status = "ValueError" THEN "selection_error"
    ELSE "no_such_element"

\* Mutant of IsSentinel: the sentinel is never recognised.
IsSentinelNever(c) == FALSE

\* `if selected_choice == 'scarica':`
IsSentinel(c) == c = Scarica

\* Selection strings handed to the resolver directly.
SelChars == {"0", "1", "3", ")", "-", " ", "s"}
SelStrings == SeqsUpTo(SelChars, MaxSelLen) \cup {Scarica}

\* ------------------------------------------------------------------- state

VARIABLES
    ipc,            \* download_and_extract: position in the function
    targetExists,   \* os.path.exists(target_directory)
    target,         \* the tree below target_directory
    preserve,       \* the preserve argument
    archive,        \* the members of the archive the server holds
    tempSet,        \* temp_preserve_dir is not None
    stageExists,    \* the directory temp_preserve_dir exists
    stage,          \* the tree below temp_preserve_dir
    zipExists,      \* the file file_to_download exists
    si,             \* index of the staging loop in preserve
    todo,           \* names the restore loop has still to visit
    exc,            \* the exception in flight, "none" when there is none
    orig,           \* history: the target tree when the function was called
    moved,          \* history: what the staging loop moved away
    extractCalled,  \* history: extractall was called
    everStaged,     \* history: mkdtemp was called
    dlFailed,       \* history: the download raised a RequestException
    completed       \* history: the try body ran to its last line

installVars == <<ipc, targetExists, target, preserve, archive, tempSet,
                 stageExists, stage, zipExists, si, todo, exc, orig, moved,
                 extractCalled, everStaged, dlFailed, completed>>

VARIABLES
    mpc,              \* the main flow: position in the script
    cwd_dirs,         \* the directories of the working directory
    available_data,   \* the manifest
    local_components, \* get_local_components()
    mode,             \* the mode of the last create_choices call
    choices,          \* the list the last create_choices call returned
    selected_choice,  \* the selection
    pickedPos,        \* history: manifest position (1-based) of the entry
                      \* whose display string was picked, 0 when none was
    result,           \* what process_selection returned or raised
    outcome,          \* what lines 237-244 did with it
    calledWith        \* history: the arguments process_selection was called with

selVars == <<mpc, cwd_dirs, available_data, local_components, mode, choices,
             selected_choice, pickedPos, result, outcome, calledWith>>

VARIABLES
    zpc,         \* zip.py: position in the script
    outExists,   \* the directory OUTPUT_DIR exists
    config,      \* the configuration, in the order of its keys
    srcDirs,     \* the directories of the working directory
    outFiles,    \* the archives below OUTPUT_DIR, each with its member names
    zi,          \* index of the project loop in config
    opened,      \* history: projects whose archive was opened for writing
    written,     \* history: projects whose archive was completed
    skipped,     \* history: projects skipped for a missing source directory
    keyErrors,   \* history: projects reported for a missing key
    buildErrors  \* history: projects whose archive raised while being built

zipVars == <<zpc, outExists, config, srcDirs, outFiles, zi, opened, written,
             skipped, keyErrors, buildErrors>>

vars == <<installVars, selVars, zipVars>>

\* ----------------------------------------------------- download_and_extract

\* The local state of a call that has not started its body.
InstallEntry ==
    /\ tempSet = FALSE
    /\ stageExists = FALSE
    /\ stage = EmptyTree
    /\ zipExists = FALSE
    /\ si = 1
    /\ todo = {}
    /\ exc = "none"
    /\ orig = target
    /\ moved = {}
    /\ extractCalled = FALSE
    /\ everStaged = FALSE
    /\ dlFailed = FALSE
    /\ completed = FALSE

\* No call of download_and_extract is under way.
InstallIdle ==
    /\ targetExists = FALSE
    /\ target = EmptyTree
    /\ preserve = <<>>
    /\ archive = {}
    /\ ipc = "idle"
    /\ InstallEntry

\* The main flow is not running.
SelIdle ==
    /\ mpc = "none"
    /\ cwd_dirs = {}
    /\ available_data = <<>>
    /\ local_components = {}
    /\ mode = "none"
    /\ choices = <<>>
    /\ selected_choice = <<>>
    /\ pickedPos = 0
    /\ result = NoResult
    /\ outcome = "none"
    /\ calledWith = {}

\* zip.py is not running.
ZipIdle ==
    /\ zpc = "none"
    /\ outExists = FALSE
    /\ config = <<>>
    /\ srcDirs = {}
    /\ outFiles = EmptyTree
    /\ zi = 1
    /\ opened = {}
    /\ written = {}
    /\ skipped = {}
    /\ keyErrors = {}
    /\ buildErrors = {}

InitInstall ==
    /\ SelIdle
    /\ ZipIdle
    /\ targetExists \in BOOLEAN
    /\ target \in (IF targetExists THEN InitTrees ELSE {EmptyTree})
    /\ preserve \in PreserveLists
    /\ archive \in Archives
    /\ ipc = "start"
    /\ InstallEntry

\* Mutant of NeedsStaging: the staging directory is made for every call.
NeedsStagingAlways(pres) == TRUE

\* `if preserve:` -- a non-empty list.
NeedsStaging(pres) == pres # <<>>

\* Mutant of AfterBody: the clean-up follows the try statement instead of
\* being its finally clause, so an exception in flight passes it by.
AfterBodyNoFinally(e) == IF e = "none" THEN "finally" ELSE "exit"

\* `finally:` -- where control goes when the try body ends, with or without
\* an exception e in flight.
AfterBody(e) == "finally"

\* Lines 120-121: make the target directory when it is missing.
EnsureTarget ==
    /\ ipc = "start"
    /\ targetExists' = TRUE
    /\ ipc' = "stage"
    /\ UNCHANGED <<selVars, zipVars>>
    /\ UNCHANGED <<target, preserve, archive, tempSet, stageExists, stage,
                   zipExists, si, todo, exc, orig, moved, extractCalled,
                   everStaged, dlFailed, completed>>

\* Lines 125-126: mkdtemp when there is a preserve list.
BeginStage ==
    /\ ipc = "stage"
    /\ IF NeedsStaging(preserve)
       THEN /\ tempSet' = TRUE
            /\ stageExists' = TRUE
            /\ everStaged' = TRUE
            /\ ipc' = "stage_loop"
       ELSE /\ ipc' = "download"
            /\ UNCHANGED <<tempSet, stageExists, everStaged>>
    /\ stage' = EmptyTree
    /\ si' = 1
    /\ UNCHANGED <<selVars, zipVars>>
    /\ UNCHANGED <<targetExists, target, preserve, archive, zipExists, todo,
                   exc, orig, moved, extractCalled, dlFailed, completed>>

\* Lines 127-131: one iteration of the staging loop.  An existing item is
\* moved to the staging directory under its base name; a move that raises
\* leaves the try body.
StageItem ==
    /\ ipc = "stage_loop"
    /\ IF si > Len(preserve)
       THEN /\ ipc' = "download"
            /\ UNCHANGED <<target, stage, si, exc, moved>>
       ELSE LET item == preserve[si]
                src_path == item
                dest_path == <<Basename(item)>>
                r == ShutilMove(target, src_path, stage, dest_path)
            IN  IF ~Exists(target, src_path)
                THEN /\ si' = si + 1
                     /\ UNCHANGED <<ipc, target, stage, exc, moved>>
                ELSE IF r.ok
                THEN /\ target' = r.src
                     /\ stage' = r.dst
                     /\ moved' = moved \cup
                            {[path |-> item, node |-> target[item]]}
                     /\ si' = si + 1
                     /\ UNCHANGED <<ipc, exc>>
                ELSE /\ exc' = "OSError"
                     /\ ipc' = AfterBody("OSError")
                     /\ UNCHANGED <<target, stage, si, moved>>
    /\ UNCHANGED <<selVars, zipVars>>
    /\ UNCHANGED <<targetExists, preserve, archive, tempSet, stageExists,
                   zipExists, todo, orig, extractCalled, everStaged, dlFailed,
                   completed>>

\* Lines 134-135 and 147-148: requests.get and raise_for_status; a
\* RequestException is caught and printed.
Download ==
    /\ ipc = "download"
    /\ \E ok \in BOOLEAN :
          IF ok
          THEN /\ ipc' = "write"
               /\ UNCHANGED dlFailed
          ELSE /\ dlFailed' = TRUE
               /\ ipc' = AfterBody("none")
    /\ UNCHANGED <<selVars, zipVars>>
    /\ UNCHANGED <<targetExists, target, preserve, archive, tempSet,
                   stageExists, stage, zipExists, si, todo, exc, orig, moved,
                   extractCalled, everStaged, completed>>

\* Lines 138-139: the content is written to the file file_to_download.
WriteArchive ==
    /\ ipc = "write"
    /\ zipExists' = TRUE
    /\ ipc' = "extract"
    /\ UNCHANGED <<selVars, zipVars>>
    /\ UNCHANGED <<targetExists, target, preserve, archive, tempSet,
                   stageExists, stage, si, todo, exc, orig, moved,
                   extractCalled, everStaged, dlFailed, completed>>

\* Lines 142-145: extractall into the target directory.  A content that is
\* no zip archive raises BadZipFile before anything is extracted; a member
\* that cannot be written raises an OSError.  Neither is caught.
Extract ==
    /\ ipc = "extract"
    /\ extractCalled' = TRUE
    /\ \E isZip \in BOOLEAN :
          LET r == ExtractAll(target, archive)
          IN  IF ~isZip
              THEN /\ exc' = "BadZipFile"
                   /\ ipc' = AfterBody("BadZipFile")
                   /\ UNCHANGED <<target, completed>>
              ELSE /\ target' = r.fs
                   /\ exc' = IF r.ok THEN "none" ELSE "OSError"
                   /\ ipc' = AfterBody(exc')
                   /\ completed' = r.ok
    /\ UNCHANGED <<selVars, zipVars>>
    /\ UNCHANGED <<targetExists, preserve, archive, tempSet, stageExists,
                   stage, zipExists, si, todo, orig, moved, everStaged,
                   dlFailed>>

\* Lines 152-159: the downloaded file is removed when it exists; the restore
\* loop is entered when a staging directory was made, over its listing.
RemoveArchive ==
    /\ ipc = "finally"
    /\ zipExists' = FALSE
    /\ IF tempSet /\ stageExists
       THEN /\ todo' = ListDir(stage)
            /\ ipc' = "restore"
       ELSE /\ ipc' = "exit"
            /\ UNCHANGED todo
    /\ UNCHANGED <<selVars, zipVars>>
    /\ UNCHANGED <<targetExists, target, preserve, archive, tempSet,
                   stageExists, stage, si, exc, orig, moved, extractCalled,
                   everStaged, dlFailed, completed>>

\* Lines 160-184: one iteration of the restore loop, in the order of
\* os.listdir.  What is at the destination is removed, then the staged item
\* is moved back; when the move raises, a copy is tried and its failure
\* ignored.
RestoreItem ==
    /\ ipc = "restore"
    /\ IF todo = {}
       THEN /\ ipc' = "rmtree"
            /\ UNCHANGED <<target, stage, todo>>
       ELSE \E preserved_name \in todo :
               LET src == <<preserved_name>>
                   dest == <<preserved_name>>
                   cleared == IF Exists(target, dest)
                              THEN RemoveTree(target, dest) ELSE target
                   r == ShutilMove(stage, src, cleared, dest)
               IN  /\ IF r.ok
                      THEN /\ target' = r.dst
                           /\ stage' = r.src
                      ELSE /\ target' = Graft(cleared, dest, stage, src)
                           /\ UNCHANGED stage
                   /\ todo' = todo \ {preserved_name}
                   /\ UNCHANGED ipc
    /\ UNCHANGED <<selVars, zipVars>>
    /\ UNCHANGED <<targetExists, preserve, archive, tempSet, stageExists,
                   zipExists, si, exc, orig, moved, extractCalled, everStaged,
                   dlFailed, completed>>

\* Lines 187-191: the staging directory is removed.
RemoveStage ==
    /\ ipc = "rmtree"
    /\ stageExists' = FALSE
    /\ stage' = EmptyTree
    /\ ipc' = "exit"
    /\ UNCHANGED <<selVars, zipVars>>
    /\ UNCHANGED <<targetExists, target, preserve, archive, tempSet,
                   zipExists, si, todo, exc, orig, moved, extractCalled,
                   everStaged, dlFailed, completed>>

\* The end of the finally block: the function returns, or the exception in
\* flight goes on to the caller.
Leave ==
    /\ ipc = "exit"
    /\ ipc' = IF exc = "none" THEN "returned" ELSE "raised"
    /\ UNCHANGED <<selVars, zipVars>>
    /\ UNCHANGED <<targetExists, target, preserve, archive, tempSet,
                   stageExists, stage, zipExists, si, todo, exc, orig, moved,
                   extractCalled, everStaged, dlFailed, completed>>

InstallStep ==
    \/ EnsureTarget
    \/ BeginStage
    \/ StageItem
    \/ Download
    \/ WriteArchive
    \/ Extract
    \/ RemoveArchive
    \/ RestoreItem
    \/ RemoveStage
    \/ Leave

InstallFinished == ipc \in {"returned", "raised"}

SpecInstall == InitInstall /\ [][InstallStep]_vars

\* ------------------------------------------ create_choices, process_selection

InitChoice ==
    /\ InstallIdle
    /\ ZipIdle
    /\ mpc = "pure"
    /\ cwd_dirs = {}
    /\ available_data \in Manifests
    /\ local_components \in SUBSET {NameA, NameB, NameC}
    /\ mode = "none"
    /\ choices = <<>>
    /\ selected_choice = <<>>
    /\ pickedPos = 0
    /\ result = NoResult
    /\ outcome = "none"
    /\ calledWith = {}

\* create_choices(available_data, local_components, m).
BuildChoices ==
    /\ mpc = "pure"
    /\ mpc' = "built"
    /\ \E m \in {"update", "download"} :
          /\ mode' = m
          /\ choices' = CreateChoices(available_data, local_components, m)
    /\ selected_choice' = <<>>
    /\ pickedPos' = 0
    /\ result' = NoResult
    /\ outcome' = "none"
    /\ UNCHANGED <<installVars, zipVars>>
    /\ UNCHANGED <<cwd_dirs, available_data, local_components, calledWith>>

\* process_selection on a string create_choices returned, then lines 237-244.
ResolveChoice ==
    /\ mpc = "built"
    /\ mpc' = "resolved"
    /\ \E j \in 1..Len(choices) :
          /\ selected_choice' = choices[j]
          /\ pickedPos' =
                ChoicePositions(available_data, local_components, mode)[j] + 1
          /\ result' = ProcessSelection(choices[j], available_data)
          /\ outcome' = TopLevel(result')
          /\ calledWith' = {choices[j]}
    /\ UNCHANGED <<installVars, zipVars>>
    /\ UNCHANGED <<cwd_dirs, available_data, local_components, mode, choices>>

\* process_selection on any string, then lines 237-244.
ResolveString ==
    /\ mpc = "pure"
    /\ mpc' = "resolved"
    /\ \E s \in SelStrings :
          /\ selected_choice' = s
          /\ result' = ProcessSelection(s, available_data)
          /\ outcome' = TopLevel(result')
          /\ calledWith' = {s}
    /\ pickedPos' = 0
    /\ UNCHANGED <<installVars, zipVars>>
    /\ UNCHANGED <<cwd_dirs, available_data, local_components, mode, choices>>

ChoiceStep ==
    \/ BuildChoices
    \/ ResolveChoice
    \/ ResolveString

SpecChoice == InitChoice /\ [][ChoiceStep]_vars

\* ---------------------------------------------------------------- main flow

\* The installed component and the archive of the runs of the whole script.
MainTrees == {t \in InitTrees : DOMAIN t = PreserveItems /\ ~IsDir(t, <<"data">>)}
MainArchives == {FilePaths}

InitMain ==
    /\ InstallIdle
    /\ ZipIdle
    /\ mpc = "fetch"
    /\ cwd_dirs \in CwdDirSets
    /\ available_data = <<>>
    /\ local_components = {}
    /\ mode = "none"
    /\ choices = <<>>
    /\ selected_choice = <<>>
    /\ pickedPos = 0
    /\ result = NoResult
    /\ outcome = "none"
    /\ calledWith = {}

\* Line 197, fetch_available_components: the manifest, or exit() when the
\* request fails.
Fetch ==
    /\ mpc = "fetch"
    /\ \E ok \in BOOLEAN :
          IF ok
          THEN /\ available_data' \in Manifests
               /\ mpc' = "build"
          ELSE /\ mpc' = "exited"
               /\ UNCHANGED available_data
    /\ UNCHANGED <<installVars, zipVars>>
    /\ UNCHANGED <<cwd_dirs, local_components, mode, choices, selected_choice,
                   pickedPos, result, outcome, calledWith>>

\* Lines 198-216: the local components, the update choices behind the
\* "Scarica nuovo" choice, and the short cut when that is the only one.
BuildInitial ==
    /\ mpc = "build"
    /\ local_components' = GetLocalComponents(cwd_dirs)
    /\ mode' = "update"
    /\ LET update_choices ==
               CreateChoices(available_data, local_components', "update")
           initial_choices == <<Scarica>> \o update_choices
       IN  /\ choices' = initial_choices
           /\ IF Len(initial_choices) = 1 /\ IsSentinel(initial_choices[1])
              THEN /\ selected_choice' = Scarica
                   /\ mpc' = "branch"
              ELSE IF initial_choices = <<>>
              THEN /\ mpc' = "exited"
                   /\ UNCHANGED selected_choice
              ELSE /\ mpc' = "prompt1"
                   /\ UNCHANGED selected_choice
    /\ UNCHANGED <<installVars, zipVars>>
    /\ UNCHANGED <<cwd_dirs, available_data, pickedPos, result, outcome,
                   calledWith>>

\* Line 219: the user picks one of the initial choices.
Prompt1 ==
    /\ mpc = "prompt1"
    /\ \E j \in 1..Len(choices) :
          /\ selected_choice' = choices[j]
          /\ pickedPos' =
                IF j = 1 THEN 0
                ELSE ChoicePositions(available_data, local_components,
                                     "update")[j - 1] + 1
    /\ mpc' = "branch"
    /\ UNCHANGED <<installVars, zipVars>>
    /\ UNCHANGED <<cwd_dirs, available_data, local_components, mode, choices,
                   result, outcome, calledWith>>

\* Lines 222-230: on the sentinel the download choices are built, and the
\* script exits when there are none.
Branch ==
    /\ mpc = "branch"
    /\ IF IsSentinel(selected_choice)
       THEN LET download_choices ==
                    CreateChoices(available_data, local_components, "download")
            IN  /\ choices' = download_choices
                /\ mode' = "download"
                /\ mpc' = IF download_choices = <<>> THEN "exited" ELSE "prompt2"
       ELSE /\ mpc' = "process"
            /\ UNCHANGED <<choices, mode>>
    /\ UNCHANGED <<installVars, zipVars>>
    /\ UNCHANGED <<cwd_dirs, available_data, local_components, selected_choice,
                   pickedPos, result, outcome, calledWith>>

\* Line 233: the user picks one of the download choices.
Prompt2 ==
    /\ mpc = "prompt2"
    /\ \E j \in 1..Len(choices) :
          /\ selected_choice' = choices[j]
          /\ pickedPos' =
                ChoicePositions(available_data, local_components,
                                "download")[j] + 1
    /\ mpc' = "process"
    /\ UNCHANGED <<installVars, zipVars>>
    /\ UNCHANGED <<cwd_dirs, available_data, local_components, mode, choices,
                   result, outcome, calledWith>>

\* Lines 237-244: process_selection, then the call of download_and_extract
\* or the report of the error.  The target directory exists when it is one
\* of the directories of the working directory.
Process ==
    /\ mpc = "process"
    /\ result' = ProcessSelection(selected_choice, available_data)
    /\ calledWith' = calledWith \cup {selected_choice}
    /\ outcome' = TopLevel(result')
    /\ IF outcome' = "install"
       THEN /\ mpc' = "install"
            /\ ipc' = "start"
            /\ preserve' = result'.da_tenere
            /\ targetExists' = (result'.dove \in cwd_dirs)
            /\ target' \in (IF targetExists' THEN MainTrees ELSE {EmptyTree})
            /\ orig' = target'
            /\ archive' \in MainArchives
       ELSE /\ mpc' = "reported"
            /\ UNCHANGED <<ipc, preserve, targetExists, target, orig, archive>>
    /\ UNCHANGED <<tempSet, stageExists, stage, zipExists, si, todo, exc, moved,
                   extractCalled, everStaged, dlFailed, completed>>
    /\ UNCHANGED <<cwd_dirs, available_data, local_components, mode, choices,
                   selected_choice, pickedPos>>
    /\ UNCHANGED zipVars

\* Line 239 returns, or its exception, neither a ValueError nor an
\* IndexError, ends the script.
Finish ==
    /\ mpc = "install"
    /\ ipc \in {"returned", "raised"}
    /\ mpc' = IF ipc = "returned" THEN "done" ELSE "crashed"
    /\ UNCHANGED <<installVars, zipVars>>
    /\ UNCHANGED <<cwd_dirs, available_data, local_components, mode, choices,
                   selected_choice, pickedPos, result, outcome, calledWith>>

MainStep ==
    \/ Fetch
    \/ BuildInitial
    \/ Prompt1
    \/ Branch
    \/ Prompt2
    \/ Process
    \/ Finish
    \/ EnsureTarget
    \/ BeginStage
    \/ StageItem
    \/ Download
    \/ WriteArchive
    \/ Extract
    \/ RemoveArchive
    \/ RestoreItem
    \/ RemoveStage
    \/ Leave

SpecMain == InitMain /\ [][MainStep]_vars

\* ------------------------------------------------------------------- zip.py

\* The files below every project directory: 'f' and 'd/g'.
SourceFiles == {<<"f">>, <<"d", "g">>}
SourceDirs == {<<"d">>}

\* The projects a configuration may list: with or without the two required
\* keys, with the whole directory or a list of items to pack, with the
\* source directory named by the project, by 'path' or by 'dir', and with an
\* archive name directly below OUTPUT_DIR or in a directory missing there.
ProjectDetails ==
    {[hasZip |-> TRUE, zip_filename |-> <<"one.zip">>, hasFiles |-> TRUE,
      files |-> <<>>, hasPath |-> FALSE, hasDir |-> FALSE],
     [hasZip |-> TRUE, zip_filename |-> <<"two.zip">>, hasFiles |-> TRUE,
      files |-> <<<<".">>>>, hasPath |-> FALSE, hasDir |-> TRUE],
     [hasZip |-> TRUE, zip_filename |-> <<"one.zip">>, hasFiles |-> TRUE,
      files |-> <<<<"f">>, <<"d">>, <<"d", "g">>, <<"nope">>>>,
      hasPath |-> TRUE, hasDir |-> TRUE],
     [hasZip |-> TRUE, zip_filename |-> <<"sub", "x.zip">>, hasFiles |-> TRUE,
      files |-> <<>>, hasPath |-> FALSE, hasDir |-> FALSE],
     [hasZip |-> FALSE, zip_filename |-> <<>>, hasFiles |-> TRUE,
      files |-> <<>>, hasPath |-> FALSE, hasDir |-> FALSE],
     [hasZip |-> TRUE, zip_filename |-> <<"two.zip">>, hasFiles |-> FALSE,
      files |-> <<>>, hasPath |-> FALSE, hasDir |-> FALSE]}

ProjectNames == {"p", "q", "r"}

\* The value of 'path' and of 'dir' where a project has the key.
PathValue == "alt"
DirValue == "other"

Projects == {[name |-> n, details |-> d] : n \in ProjectNames, d \in ProjectDetails}

\* A configuration is a JSON object: its keys are distinct and keep their order.
Configs ==
    {c \in SeqsUpTo(Projects, MaxProjects) :
        \A i, j \in 1..Len(c) : i # j => c[i].name # c[j].name}

\* details.get('path', details.get('dir', project_name))
ProjectPath(project) ==
    IF project.details.hasPath THEN PathValue
    ELSE IF project.details.hasDir THEN DirValue
    ELSE project.name

\* `'zip_filename' in details and 'files' in details`
HasRequiredKeys(details) == details.hasZip /\ details.hasFiles

\* Mutant of SourceMissing: the source directory is not checked.
SourceMissingNever(project_path, dirs) == FALSE

\* `not os.path.isdir(project_path)`: create_zip_archive returns at once.
SourceMissing(project_path, dirs) == project_path \notin dirs

\* ZipFile(zip_path, 'w'): the archive is created when its directory exists.
CanOpen(zip_filename) == Len(zip_filename) = 1

\* The member names create_zip_archive writes: everything for an empty list
\* or ['.'], else each listed file under its base name and each listed
\* directory with the paths below it relative to the project directory.
ArchiveMembers(files_to_include) ==
    IF files_to_include = <<>> \/ files_to_include = <<<<".">>>>
    THEN SourceFiles
    ELSE UNION {LET item == files_to_include[k]
                IN  IF item \in SourceFiles THEN {<<Basename(item)>>}
                    ELSE IF item \in SourceDirs
                    THEN {f \in SourceFiles : IsPrefix(item, f)}
                    ELSE {} : k \in 1..Len(files_to_include)}

InitZip ==
    /\ InstallIdle
    /\ SelIdle
    /\ zpc = "start"
    /\ outExists \in BOOLEAN
    /\ config \in Configs
    /\ srcDirs \in SUBSET (ProjectNames \cup {PathValue, DirValue})
    /\ outFiles = EmptyTree
    /\ zi = 1
    /\ opened = {}
    /\ written = {}
    /\ skipped = {}
    /\ keyErrors = {}
    /\ buildErrors = {}

\* Lines 91-100: the output directory is made, the configuration is loaded
\* (load_config exits when it cannot be read), and an empty one ends the run.
ZipStart ==
    /\ zpc = "start"
    /\ outExists' = TRUE
    /\ \E loaded \in BOOLEAN :
          zpc' = IF ~loaded \/ config = <<>> THEN "exited" ELSE "loop"
    /\ UNCHANGED <<config, srcDirs, outFiles, zi, opened, written, skipped,
                   keyErrors, buildErrors>>
    /\ UNCHANGED <<installVars, selVars>>

\* Lines 105-117 with create_zip_archive (lines 29-82): one project.
ZipProject ==
    /\ zpc = "loop"
    /\ zi <= Len(config)
    /\ LET project == config[zi]
           details == project.details
           project_path == ProjectPath(project)
       IN  IF ~HasRequiredKeys(details)
           THEN /\ keyErrors' = keyErrors \cup {zi}
                /\ UNCHANGED <<outFiles, opened, written, skipped, buildErrors>>
           ELSE IF SourceMissing(project_path, srcDirs)
           THEN /\ skipped' = skipped \cup {zi}
                /\ UNCHANGED <<outFiles, opened, written, keyErrors, buildErrors>>
           ELSE IF ~CanOpen(details.zip_filename)
           THEN /\ buildErrors' = buildErrors \cup {zi}
                /\ UNCHANGED <<outFiles, opened, written, skipped, keyErrors>>
           ELSE /\ opened' = opened \cup {zi}
                /\ written' = written \cup {zi}
                /\ outFiles' =
                      [z \in DOMAIN outFiles \cup {details.zip_filename} |->
                          IF z = details.zip_filename
                          THEN ArchiveMembers(details.files)
                          ELSE outFiles[z]]
                /\ UNCHANGED <<skipped, keyErrors, buildErrors>>
    /\ zi' = zi + 1
    /\ UNCHANGED <<zpc, outExists, config, srcDirs>>
    /\ UNCHANGED <<installVars, selVars>>

\* Lines 119-120: the loop is over.
ZipFinish ==
    /\ zpc = "loop"
    /\ zi > Len(config)
    /\ zpc' = "done"
    /\ UNCHANGED <<outExists, config, srcDirs, outFiles, zi, opened, written,
                   skipped, keyErrors, buildErrors>>
    /\ UNCHANGED <<installVars, selVars>>

ZipStep ==
    \/ ZipStart
    \/ ZipProject
    \/ ZipFinish

\* The script is one sequential process: it takes its next step.
SpecZip == InitZip /\ [][ZipStep]_vars /\ WF_vars(ZipStep)

\* ------------------------------------------------------------------- claims

\* The subtree below p is the same in trees t and o.
SameSubtree(t, o, p) ==
    /\ {q \in DOMAIN t : IsPrefix(p, q)} = {q \in DOMAIN o : IsPrefix(p, q)}
    /\ \A q \in DOMAIN o : IsPrefix(p, q) => t[q] = o[q]

\* Path p is a listed preserve item or lies below one.
Preserved(p) == \E i \in 1..Len(preserve) : IsPrefix(preserve[i], p)

\* No listed preserve item existed when the function was called.
NoneExisted == \A i \in 1..Len(preserve) : ~Exists(orig, preserve[i])

\* C1: after a successful run every preserve item that existed before is at
\* its path with the content it had, and a path of the archive that is not
\* preserved holds the archive's version.
C1_PreserveRoundTrip ==
    (ipc = "returned" /\ completed) =>
        /\ \A i \in 1..Len(preserve) :
              Exists(orig, preserve[i]) => SameSubtree(target, orig, preserve[i])
        /\ \A b \in archive :
              ~Preserved(b) => Exists(target, b) /\ target[b] = FileNode(NewData(b))

\* C2: when the download failed, extractall was never called and everything
\* the staging loop moved away is again below the target directory, under
\* its own name and with its own content.
C2_StagedItemsBack ==
    (InstallFinished /\ dlFailed) =>
        /\ ~extractCalled
        /\ \A m \in moved :
              \E q \in DOMAIN target :
                 Basename(q) = Basename(m.path) /\ target[q] = m.node

\* C3: once download_and_extract has returned or raised, neither the
\* downloaded archive file nor the staging directory exists.
C3_NoLeftovers == InstallFinished => (~zipExists /\ ~stageExists)

\* C3 witness: the function has raised after staging an item and writing the
\* archive file (the extraction failed).
C3_Witness ==
    ipc = "raised" /\ everStaged /\ moved # {} /\ extractCalled

\* What a run without staging leaves in the target directory: the extracted
\* members when extractall was reached, else what was there.
PlainResult ==
    IF completed \/ exc = "OSError" THEN ExtractAll(orig, archive).fs ELSE orig

\* C7 (as stated): a staging directory is made only when the preserve list
\* is non-empty and one of its paths exists below the target directory.
C7_StagingOnlyWhenItemExists ==
    everStaged => (preserve # <<>> /\ ~NoneExisted)

\* C7 (amended): a staging directory is made exactly when the preserve list
\* is non-empty, whether or not a listed path exists; with an empty list, or
\* a list none of whose paths exist, nothing is moved and the run leaves what
\* plain download plus extract leaves.
C7_StagingIffPreserveList ==
    /\ everStaged => preserve # <<>>
    /\ (preserve # <<>> /\ ipc \notin {"start", "stage"}) => everStaged
    /\ NoneExisted =>
          /\ moved = {}
          /\ stage = EmptyTree
          /\ InstallFinished => target = PlainResult

\* C7 witness: a run with a preserve list none of whose paths existed has
\* returned after making a staging directory.
C7_Witness ==
    /\ ipc = "returned"
    /\ completed
    /\ preserve # <<>>
    /\ NoneExisted
    /\ everStaged

\* The display string of the entry at 1-based position i (i below 10).
ExpectedChoice(i) == <<Digits[i + 1], ")", " ">> \o available_data[i].name

\* The positions create_choices is to keep in mode m.
Wanted(m) ==
    {i \in 1..Len(available_data) :
        (available_data[i].name \in local_components) = (m = "update")}

\* How often the display string of position i occurs in list.
Occurrences(list, i) ==
    Cardinality({j \in 1..Len(list) : list[j] = ExpectedChoice(i)})

\* List holds the display strings of exactly the positions in want, in
\* manifest order.
ListsExactly(list, want) ==
    /\ Len(list) = Cardinality(want)
    /\ \A j \in 1..Len(list) : \E i \in want : list[j] = ExpectedChoice(i)
    /\ \A j, k \in 1..Len(list) :
          j < k => \E a, b \in want :
                      a < b /\ list[j] = ExpectedChoice(a)
                            /\ list[k] = ExpectedChoice(b)

\* C4: create_choices returns, in manifest order, the display strings of
\* exactly the local entries in 'update' mode and of exactly the others in
\* 'download' mode, each with its 1-based manifest position; the two lists
\* together hold every entry once.
C4_ChoicesFilterAndIndex ==
    mode \in {"update", "download"} =>
        /\ ListsExactly(choices, Wanted(mode))
        /\ LET other == IF mode = "update" THEN "download" ELSE "update"
               rest == CreateChoices(available_data, local_components, other)
           IN  \A i \in 1..Len(available_data) :
                  Occurrences(choices, i) + Occurrences(rest, i) = 1

\* C4 witness: in 'update' mode only the second of two entries is local, and
\* its choice carries position 2.
C4_Witness ==
    /\ mpc = "built"
    /\ mode = "update"
    /\ Len(available_data) = 2
    /\ choices = <<ExpectedChoice(2)>>

\* C5: process_selection on a string create_choices returned for position i
\* returns the archive name, the name and the preserve list of the entry at
\* position i.
C5_ResolverRoundTrip ==
    (mpc = "resolved" /\ pickedPos # 0) =>
        LET entry == available_data[pickedPos]
        IN  /\ result.status = "ok"
            /\ result.cosa = entry.zip
            /\ result.dove = entry.name
            /\ result.da_tenere = IF entry.hasTenere THEN entry.tenere ELSE <<>>

\* C5 witness: the choice of the second entry, whose name holds a ')' and
\* which has a preserve list, was resolved.
C5_Witness ==
    /\ mpc = "resolved"
    /\ pickedPos = 2
    /\ result.dove = NameB
    /\ result.da_tenere # <<>>

\* C6: process_selection raises ValueError on the sentinel and on every
\* string without a ')'.
C6_NoSeparatorRaises ==
    (/\ mpc = "resolved"
     /\ \/ selected_choice = Scarica
        \/ \A k \in 1..Len(selected_choice) : selected_choice[k] # ")") =>
        result.status = "ValueError"

\* C8: process_selection is never called with the sentinel.
C8_ResolverNeverGetsSentinel == Scarica \notin calledWith

\* C8 witness: with no local component the sentinel was taken without a
\* prompt, a download choice replaced it, and the resolver was called.
C8_Witness ==
    /\ local_components = {}
    /\ mode = "download"
    /\ calledWith # {}

\* The source directory of project i.
PathOf(i) == ProjectPath(config[i])

\* C9 (as stated): at the end of the loop no archive was opened or written
\* for a project whose source directory is missing, and every project with
\* both keys and a source directory has its archive written.
C9_EveryValidProjectWritten ==
    zpc = "done" =>
        \A i \in 1..Len(config) :
            /\ PathOf(i) \notin srcDirs => i \notin opened \cup written
            /\ (HasRequiredKeys(config[i].details) /\ PathOf(i) \in srcDirs)
                  => i \in written

\* C9 (amended): no archive is ever opened or written for a project whose
\* source directory is missing; every project with both keys and a source
\* directory that the loop has passed has its archive written, or the error
\* of building it reported; and the loop, once entered, reaches its end.
C9_IsolationAndTermination ==
    /\ [](\A i \in 1..Len(config) :
            /\ PathOf(i) \notin srcDirs => i \notin opened \cup written
            /\ (/\ i < zi
                /\ HasRequiredKeys(config[i].details)
                /\ PathOf(i) \in srcDirs)
                  => (i \in written \/ i \in buildErrors))
    /\ (zpc = "loop" ~> zpc = "done")

\* C9 witness: the loop ended after skipping one project and writing the
\* archive of another.
C9_Witness ==
    /\ zpc = "done"
    /\ skipped # {}
    /\ written # {}

\* C10: a selection whose numeric prefix is not a manifest position is
\* reported as an error and download_and_extract is not started.
C10_OutOfRangeReported ==
    (/\ mpc = "resolved"
     /\ PyInt(SplitFirst(selected_choice)).ok
     /\ PyInt(SplitFirst(selected_choice)).val \notin 1..Len(available_data)) =>
        outcome \in {"selection_error", "no_such_element"}

====
